---- MODULE Spec2Model ----
(***************************************************************************)
(* Model of the thread / UI-event-loop coordination of the Whisper         *)
(* transcription GUI (src/gui.py, class WhisperGUI) and of the helpers of  *)
(* src/transcribe.py it calls.                                             *)
(*                                                                         *)
(* One UI thread runs the Tk event loop: it executes user-event handlers   *)
(* (on_model_change, select_file) and the callbacks that worker threads    *)
(* queue with root.after(0, ...).  Every model load and every              *)
(* transcription runs on its own threading.Thread.  Each action below is   *)
(* one atomic step of one thread.                                          *)
(***************************************************************************)
EXTENDS Integers, Sequences, FiniteSets, TLC

VARIABLES
    pipe,           \* self.pipe: the current model handle, or NONE
    current_model,  \* self.current_model
    model_var,      \* self.model_var (the value shown in the combobox)
    select_button,  \* state of self.select_button: "normal" | "disabled"
    model_combo,    \* state of self.model_combo: "readonly" | "disabled"
    status_var,     \* self.status_var
    progress,       \* self.progress: "running" | "stopped"
    output,         \* [state, content] of the self.output text widget
    afterQueue,     \* callbacks queued with root.after(0, ...), FIFO
    loads,          \* the initialize_pipeline threads, by job number
    trans,          \* the transcribe threads, by job number
    dialog          \* TRUE while select_file's askopenfilename dialog is open

vars == <<pipe, current_model, model_var, select_button, model_combo,
          status_var, progress, output, afterQueue, loads, trans, dialog>>

(***************************************************************************)
(* Bounds of the model.                                                    *)
(***************************************************************************)
MaxThreads == 3      \* worker threads ever started, the first load included
NumSizes == 2        \* how many of the MODELS keys the user picks among

(***************************************************************************)
(* src/transcribe.py                                                       *)
(***************************************************************************)
MODELS ==
    [tiny   |-> "openai/whisper-tiny",
     base   |-> "openai/whisper-base",
     small  |-> "openai/whisper-small",
     medium |-> "openai/whisper-medium",
     large  |-> "openai/whisper-large-v3-turbo"]

ModelKeys == <<"small", "large", "tiny", "base", "medium">>

Sizes == {ModelKeys[i] : i \in 1..NumSizes}

\* The value of self.pipe before the first load has returned (None).
NONE == [model_id |-> "None", job |-> 0]

\* setup_whisper(model_size), called by load job `job`: a fresh pipeline
\* object for the model id the size maps to (unknown sizes fall back to small).
setup_whisper(model_size, job) ==
    [model_id |-> IF model_size \in DOMAIN MODELS THEN MODELS[model_size]
                  ELSE MODELS["small"],
     job      |-> job]

\* Python's None as the value of `result`.
None == [isNone |-> TRUE, text |-> [pre |-> "", core |-> "", post |-> ""],
         chunks |-> <<>>]

\* A string with its surrounding whitespace kept apart, so that str.strip()
\* is a real conversion.
Txt(pre, core, post) == [pre |-> pre, core |-> core, post |-> post]

strip(t) == t.core

\* chunk["timestamp"]: a (start, end) tuple, a (start, None) tuple, or a bare
\* float.  Times are in milliseconds.
Tuple(start, end) == [kind |-> "tuple", start |-> start, end |-> end, endNone |-> FALSE]

TupleNoEnd(start) == [kind |-> "tuple", start |-> start, end |-> 0, endNone |-> TRUE]

Float(start) == [kind |-> "float", start |-> start, end |-> 0, endNone |-> FALSE]

\* The results the inference pipeline can hand back in this model.
Results ==
    { [isNone |-> FALSE, text |-> Txt(" ", "hello world", ""),
       chunks |-> << [timestamp |-> Tuple(1500, 3250), text |-> Txt(" ", "hello", "")],
                     [timestamp |-> Float(2000),       text |-> Txt(" ", "world", " ")] >>],
      [isNone |-> FALSE, text |-> Txt("", "bye", " "),
       chunks |-> << [timestamp |-> Tuple(0, 125),     text |-> Txt("", "bye", "")],
                     [timestamp |-> TupleNoEnd(375),   text |-> Txt(" ", "now", "")] >>] }

\* transcribe_audio(audio_path, pipeline): the pipeline's result, or None when
\* the pipeline raises (the except arm prints and returns None).  A pipeline
\* of None is not callable, so it always raises.
transcribe_audio(pipeline) ==
    IF pipeline = NONE THEN {None} ELSE Results \cup {None}

\* "{x:.2f}" for x given in milliseconds (ties to even, as for the binary
\* fractions that are exactly representable).
Fmt2(ms) ==
    LET q == ms \div 10
        r == ms % 10
        h == IF r > 5 \/ (r = 5 /\ q % 2 = 1) THEN q + 1 ELSE q
        f == h % 100
    IN  ToString(h \div 100) \o "." \o (IF f < 10 THEN "0" ELSE "") \o ToString(f)

\* format_timestamp, and the same expression inlined in update_output.
\* Formatting None with ".2f" raises TypeError: no string is produced.
format_timestamp(ts) ==
    IF ts.kind = "tuple"
    THEN [raised |-> ts.endNone,
          str |-> IF ts.endNone THEN ""
                  ELSE "[" \o Fmt2(ts.start) \o "s -> " \o Fmt2(ts.end) \o "s]"]
    ELSE [raised |-> FALSE, str |-> "[" \o Fmt2(ts.start) \o "s]"]

(***************************************************************************)
(* src/gui.py: values                                                      *)
(***************************************************************************)
\* file_path values: the dialog's "" (nothing chosen), a file that exists and
\* one that does not.
Path(dir, base) == [dir |-> dir, base |-> base]

NoPath == Path("", "")

Paths == {Path("/audio/", "talk.mp3"), Path("/audio/", "gone.mp3")}

\* os.path.exists(file_path)
exists(file_path) == file_path = Path("/audio/", "talk.mp3")

\* os.path.basename(file_path)
basename(file_path) == file_path.base

LoadJobs == 1..MaxThreads

TransJobs == 1..(MaxThreads - 1)

\* An initialize_pipeline thread: where it is (pc) and the argument it passed
\* to setup_whisper (arg).  Three more fields record its history for the
\* properties below and are never read by an action: the size selected when
\* it was started, whether another load was then in flight, and how it ended.
LoadThread(pc, arg, size, raced, outcome) ==
    [pc |-> pc, arg |-> arg, size |-> size, raced |-> raced, outcome |-> outcome]

\* A thread that has not been started.
IdleLoad == LoadThread("idle", "none", "none", FALSE, "none")

IdleTrans == [pc |-> "idle", file |-> NoPath, pipeline |-> NONE, submitted |-> NONE]

\* A thread that has ended (its locals are gone).
DoneLoad(t, outcome) == LoadThread("done", "none", t.size, t.raced, outcome)

DoneTrans == [pc |-> "done", file |-> NoPath, pipeline |-> NONE, submitted |-> NONE]

\* A callback handed to root.after(0, ...): which closure it is, the job
\* whose thread queued it, and the values the closure captured.
Callback(kind, job, file, result) ==
    [kind |-> kind, job |-> job, file |-> file, result |-> result]

\* self.output.insert(tk.END, chars, tag)
Ins(chars, tag) == [chars |-> chars, tag |-> tag]

(***************************************************************************)
(* update_output: the body of the try block, as the list of inserts it     *)
(* performs and whether it raised before finishing.                        *)
(***************************************************************************)
RECURSIVE RenderChunks(_, _)
RenderChunks(chunks, acc) ==
    IF chunks = <<>> THEN [content |-> acc, raised |-> FALSE]
    ELSE LET chunk    == Head(chunks)
             time_str == format_timestamp(chunk.timestamp)
         IN  IF time_str.raised THEN [content |-> acc, raised |-> TRUE]
             ELSE RenderChunks(Tail(chunks),
                      acc \o << Ins(time_str.str \o " ", "timestamp"),
                                Ins(strip(chunk.text), "text"),
                                Ins("\n\n", "") >>)

RenderBody(result) ==
    IF result.isNone THEN [content |-> <<>>, raised |-> FALSE]
    ELSE RenderChunks(result.chunks,
             << Ins("Full Transcription:\n", "header"),
                Ins("\n", ""),
                Ins(strip(result.text), "text"),
                Ins("\n\n\n", ""),
                Ins("Timestamped Chunks:\n", "header"),
                Ins("\n", "") >>)

\* The widget state left behind if the config call ended the try body
\* instead of sitting in the finally block.
RenderExitLeaky(raised) == IF raised THEN "normal" ELSE "disabled"

\* The widget state update_output leaves behind: the finally block runs
\* self.output.config(state='disabled') whether or not the body raised.

RenderExit(raised) == "disabled"

(***************************************************************************)
(* State after WhisperGUI.__init__: the widgets as constructed, the first  *)
(* initialize_pipeline thread started, the output widget read-only.        *)
(***************************************************************************)
Init ==
    /\ pipe = NONE
    /\ current_model = "small"
    /\ model_var = "small"
    /\ select_button = "disabled"
    /\ model_combo = "readonly"
    /\ status_var = "Initializing Whisper model..."
    /\ progress = "stopped"
    /\ output = [state |-> "disabled", content |-> <<>>]
    /\ afterQueue = <<>>
    /\ loads = [i \in LoadJobs |-> IF i = 1 THEN LoadThread("start", "none", "small", FALSE, "none")
                                   ELSE IdleLoad]
    /\ trans = [j \in TransJobs |-> IdleTrans]
    /\ dialog = FALSE

(***************************************************************************)
(* initialize_pipeline, on its worker thread.                              *)
(***************************************************************************)
\* root.after(0, <disable controls>)
LoadPostDisable(i) ==
    /\ loads[i].pc = "start"
    /\ afterQueue' = Append(afterQueue, Callback("load_disable", i, NoPath, None))
    /\ loads' = [loads EXCEPT ![i].pc = "call"]
    /\ UNCHANGED <<pipe, current_model, model_var, select_button, model_combo,
                   status_var, progress, output, trans, dialog>>

\* setup_whisper(self.current_model) is entered: the argument is read now.
LoadCall(i) ==
    /\ loads[i].pc = "call"
    /\ loads' = [loads EXCEPT ![i].pc = "loading", ![i].arg = current_model]
    /\ UNCHANGED <<pipe, current_model, model_var, select_button, model_combo,
                   status_var, progress, output, afterQueue, trans, dialog>>

\* setup_whisper returns and its result is stored: self.pipe = ...
LoadReturn(i) ==
    /\ loads[i].pc = "loading"
    /\ pipe' = setup_whisper(loads[i].arg, i)
    /\ loads' = [loads EXCEPT ![i].pc = "loaded"]
    /\ UNCHANGED <<current_model, model_var, select_button, model_combo,
                   status_var, progress, output, afterQueue, trans, dialog>>

\* root.after(0, <enable controls>)
LoadPostReady(i) ==
    /\ loads[i].pc = "loaded"
    /\ afterQueue' = Append(afterQueue, Callback("load_ready", i, NoPath, None))
    /\ loads' = [loads EXCEPT ![i] = DoneLoad(loads[i], "ok")]
    /\ UNCHANGED <<pipe, current_model, model_var, select_button, model_combo,
                   status_var, progress, output, trans, dialog>>

\* setup_whisper raises: the except arm queues the failure callback.
LoadRaise(i) ==
    /\ loads[i].pc = "loading"
    /\ afterQueue' = Append(afterQueue, Callback("load_error", i, NoPath, None))
    /\ loads' = [loads EXCEPT ![i] = DoneLoad(loads[i], "failed")]
    /\ UNCHANGED <<pipe, current_model, model_var, select_button, model_combo,
                   status_var, progress, output, trans, dialog>>

(***************************************************************************)
(* transcribe_file.transcribe, on its worker thread.                       *)
(***************************************************************************)
\* root.after(0, <disable button, start progress>)
TransPostStart(j) ==
    /\ trans[j].pc = "start"
    /\ afterQueue' = Append(afterQueue, Callback("trans_start", j, trans[j].file, None))
    /\ trans' = [trans EXCEPT ![j].pc = "call"]
    /\ UNCHANGED <<pipe, current_model, model_var, select_button, model_combo,
                   status_var, progress, output, loads, dialog>>

\* transcribe_audio(file_path, self.pipe) is entered: self.pipe is read now.
TransCall(j) ==
    /\ trans[j].pc = "call"
    /\ trans' = [trans EXCEPT ![j].pc = "running", ![j].pipeline = pipe]
    /\ UNCHANGED <<pipe, current_model, model_var, select_button, model_combo,
                   status_var, progress, output, afterQueue, loads, dialog>>

\* transcribe_audio returns `result`; root.after(0, update_output).
\* transcribe_audio turns every Exception of the pipeline into None, so the
\* except arm of transcribe (handle_error) is not entered by a failed
\* transcription and has no action here.
TransReturn(j) ==
    /\ trans[j].pc = "running"
    /\ \E result \in transcribe_audio(trans[j].pipeline) :
          afterQueue' = Append(afterQueue,
                               Callback("update_output", j, trans[j].file, result))
    /\ trans' = [trans EXCEPT ![j] = DoneTrans]
    /\ UNCHANGED <<pipe, current_model, model_var, select_button, model_combo,
                   status_var, progress, output, loads, dialog>>

(***************************************************************************)
(* The callbacks, run by the UI thread's event loop in the order queued.   *)
(* The loop also runs inside the file dialog, so they need not wait for    *)
(* the dialog to close.                                                    *)
(***************************************************************************)
NextIs(kind) == afterQueue # <<>> /\ Head(afterQueue).kind = kind

\* initialize_pipeline, first lambda
ApplyLoadDisable ==
    /\ NextIs("load_disable")
    /\ afterQueue' = Tail(afterQueue)
    /\ select_button' = "disabled"
    /\ model_combo' = "disabled"
    /\ status_var' = "Downloading model... This may take a few minutes..."
    /\ progress' = "stopped"
    /\ UNCHANGED <<pipe, current_model, model_var, output, loads, trans, dialog>>

\* The second lambda without its select_button.config call.
ApplyLoadReadyButtonKept ==
    /\ NextIs("load_ready")
    /\ afterQueue' = Tail(afterQueue)
    /\ model_combo' = "readonly"
    /\ status_var' = "Ready"
    /\ progress' = "stopped"
    /\ UNCHANGED <<pipe, current_model, model_var, select_button, output, loads,
                   trans, dialog>>

\* initialize_pipeline, second lambda
ApplyLoadReady ==
    /\ NextIs("load_ready")
    /\ afterQueue' = Tail(afterQueue)
    /\ select_button' = "normal"
    /\ model_combo' = "readonly"
    /\ status_var' = "Ready"
    /\ progress' = "stopped"
    /\ UNCHANGED <<pipe, current_model, model_var, output, loads, trans, dialog>>

\* Whether the name `e` of "except Exception as e" is still bound when a
\* closure created inside the except block runs later on the UI thread.
\* Python unbinds it when the except block is left, so str(e) raises NameError.
ExceptNameBound == FALSE

\* The third lambda with the selector state of the first one.
ApplyLoadErrorSelectorOff ==
    /\ NextIs("load_error")
    /\ afterQueue' = Tail(afterQueue)
    /\ select_button' = "disabled"
    /\ model_combo' = "disabled"
    /\ status_var' = IF ExceptNameBound THEN "Error initializing: load failed"
                     ELSE status_var
    /\ progress' = IF ExceptNameBound THEN "stopped" ELSE progress
    /\ UNCHANGED <<pipe, current_model, model_var, output, loads, trans, dialog>>

\* initialize_pipeline, third lambda: the list is evaluated left to right and
\* the status element raises, so the elements after it are not evaluated.
ApplyLoadError ==
    /\ NextIs("load_error")
    /\ afterQueue' = Tail(afterQueue)
    /\ select_button' = "disabled"
    /\ model_combo' = "readonly"
    /\ status_var' = IF ExceptNameBound THEN "Error initializing: load failed"
                     ELSE status_var
    /\ progress' = IF ExceptNameBound THEN "stopped" ELSE progress
    /\ UNCHANGED <<pipe, current_model, model_var, output, loads, trans, dialog>>

\* transcribe, first lambda
ApplyTransStart ==
    /\ NextIs("trans_start")
    /\ afterQueue' = Tail(afterQueue)
    /\ select_button' = "disabled"
    /\ status_var' = "Transcribing " \o basename(Head(afterQueue).file) \o "..."
    /\ progress' = "running"
    /\ UNCHANGED <<pipe, current_model, model_var, model_combo, output, loads,
                   trans, dialog>>

\* A delete that removes nothing, so that a render appends.
delete_nothing(content) == content

\* self.output.delete(1.0, tk.END): what is left of the widget's content.
delete(content) == <<>>

\* update_output with self.progress.stop() left out of the finally block.
update_output_keeps_progress ==
    /\ NextIs("update_output")
    /\ afterQueue' = Tail(afterQueue)
    /\ LET body == RenderBody(Head(afterQueue).result)
       IN  output' = [state   |-> RenderExit(body.raised),
                      content |-> delete(output.content) \o body.content]
    /\ select_button' = "normal"
    /\ status_var' = "Transcription complete"
    /\ UNCHANGED <<pipe, current_model, model_var, model_combo, progress, loads,
                   trans, dialog>>

\* update_output: the widget is made writable and cleared, the body inserts
\* until it finishes or raises, and the finally block runs in both cases.
update_output ==
    /\ NextIs("update_output")
    /\ afterQueue' = Tail(afterQueue)
    /\ LET body == RenderBody(Head(afterQueue).result)
       IN  output' = [state   |-> RenderExit(body.raised),
                      content |-> delete(output.content) \o body.content]
    /\ progress' = "stopped"
    /\ select_button' = "normal"
    /\ status_var' = "Transcription complete"
    /\ UNCHANGED <<pipe, current_model, model_var, model_combo, loads, trans, dialog>>

(***************************************************************************)
(* User events, handled on the UI thread.  The main window takes no events *)
(* while the modal file dialog is open.                                    *)
(***************************************************************************)
FreeLoad == {i \in LoadJobs : loads[i].pc = "idle"}

FreeTrans == {j \in TransJobs : trans[j].pc = "idle"}

Min(S) == CHOOSE x \in S : \A y \in S : x <= y

\* threading.Thread(...).start() is modelled for the first MaxThreads threads.
Started ==
    Cardinality(LoadJobs \ FreeLoad) + Cardinality(TransJobs \ FreeTrans)

CanStart == Started < MaxThreads

\* A job is in flight from the start of its thread until its completion
\* callback has been run by the UI thread.
Queued(kinds, job) ==
    \E k \in DOMAIN afterQueue :
        afterQueue[k].job = job /\ afterQueue[k].kind \in kinds

LoadInFlight(i) ==
    \/ loads[i].pc \in {"start", "call", "loading", "loaded"}
    \/ Queued({"load_ready", "load_error"}, i)

TransInFlight(j) ==
    \/ trans[j].pc \in {"start", "call", "running"}
    \/ Queued({"update_output"}, j)

AnyLoadInFlight == \E i \in LoadJobs : LoadInFlight(i)

AnyTransInFlight == \E j \in TransJobs : TransInFlight(j)

\* on_model_change without its "new_model != self.current_model" test.
on_model_change_always(new_model) ==
    /\ model_combo = "readonly"
    /\ ~dialog
    /\ model_var' = new_model
    /\ CanStart
    /\ current_model' = new_model
    /\ select_button' = "disabled"
    /\ model_combo' = "disabled"
    /\ progress' = "stopped"
    /\ status_var' = "Downloading " \o new_model
                       \o " model... This may take a few minutes..."
    /\ loads' = [loads EXCEPT ![Min(FreeLoad)] =
           LoadThread("start", "none", new_model, AnyLoadInFlight, "none")]
    /\ UNCHANGED <<pipe, output, afterQueue, trans, dialog>>

\* <<ComboboxSelected>>: the combobox has stored the chosen value in model_var.
on_model_change(new_model) ==
    /\ model_combo = "readonly"
    /\ ~dialog
    /\ model_var' = new_model
    /\ IF new_model # current_model
       THEN /\ CanStart
            /\ current_model' = new_model
            /\ select_button' = "disabled"
            /\ model_combo' = "disabled"
            /\ progress' = "stopped"
            /\ status_var' = "Downloading " \o new_model
                               \o " model... This may take a few minutes..."
            /\ loads' = [loads EXCEPT ![Min(FreeLoad)] =
                   LoadThread("start", "none", new_model, AnyLoadInFlight, "none")]
       ELSE UNCHANGED <<current_model, select_button, model_combo, progress,
                        status_var, loads>>
    /\ UNCHANGED <<pipe, output, afterQueue, trans, dialog>>

\* The button's command: select_file opens the dialog.
SelectFileOpen ==
    /\ select_button = "normal"
    /\ ~dialog
    /\ dialog' = TRUE
    /\ UNCHANGED <<pipe, current_model, model_var, select_button, model_combo,
                   status_var, progress, output, afterQueue, loads, trans>>

\* transcribe_file without its os.path.exists test.
transcribe_file_unchecked(file_path) ==
    /\ CanStart
    /\ trans' = [trans EXCEPT ![Min(FreeTrans)] =
                    [pc |-> "start", file |-> file_path, pipeline |-> NONE,
                     submitted |-> pipe]]
    /\ UNCHANGED status_var

\* transcribe_file(file_path).  `submitted` records the value self.pipe has
\* when the thread is started; the code keeps no such copy.
transcribe_file(file_path) ==
    IF ~exists(file_path)
    THEN /\ status_var' = "Error: File not found"
         /\ UNCHANGED trans
    ELSE /\ CanStart
         /\ trans' = [trans EXCEPT ![Min(FreeTrans)] =
                         [pc |-> "start", file |-> file_path, pipeline |-> NONE,
                          submitted |-> pipe]]
         /\ UNCHANGED status_var

\* askopenfilename returns file_path; a non-empty path goes to transcribe_file.
SelectFileReturn(file_path) ==
    /\ dialog
    /\ dialog' = FALSE
    /\ IF file_path # NoPath
       THEN transcribe_file(file_path)
       ELSE UNCHANGED <<status_var, trans>>
    /\ UNCHANGED <<pipe, current_model, model_var, select_button, model_combo,
                   progress, output, afterQueue, loads>>

Next ==
    \/ \E i \in LoadJobs : LoadPostDisable(i)
    \/ \E i \in LoadJobs : LoadCall(i)
    \/ \E i \in LoadJobs : LoadReturn(i)
    \/ \E i \in LoadJobs : LoadPostReady(i)
    \/ \E i \in LoadJobs : LoadRaise(i)
    \/ \E j \in TransJobs : TransPostStart(j)
    \/ \E j \in TransJobs : TransCall(j)
    \/ \E j \in TransJobs : TransReturn(j)
    \/ ApplyLoadDisable
    \/ ApplyLoadReady
    \/ ApplyLoadError
    \/ ApplyTransStart
    \/ update_output
    \/ \E new_model \in Sizes : on_model_change(new_model)
    \/ SelectFileOpen
    \/ \E file_path \in Paths \cup {NoPath} : SelectFileReturn(file_path)

Spec == Init /\ [][Next]_vars

\* Scheduling: a started thread keeps running (each of its steps is taken
\* once it can be; a load that can return does so unless it raises), and
\* root.mainloop() keeps running the queued callbacks.  Nothing obliges the
\* user to act or a load to fail.
Fairness ==
    /\ \A i \in LoadJobs :
          /\ WF_vars(LoadPostDisable(i)) /\ WF_vars(LoadCall(i))
          /\ WF_vars(LoadReturn(i)) /\ WF_vars(LoadPostReady(i))
    /\ \A j \in TransJobs :
          /\ WF_vars(TransPostStart(j)) /\ WF_vars(TransCall(j))
          /\ WF_vars(TransReturn(j))
    /\ WF_vars(ApplyLoadDisable) /\ WF_vars(ApplyLoadReady)
    /\ WF_vars(ApplyLoadError) /\ WF_vars(ApplyTransStart)
    /\ WF_vars(update_output)

FairSpec == Spec /\ Fairness

(***************************************************************************)
(* Properties.                                                             *)
(***************************************************************************)
\* The UI thread runs the queued callback of the given kind in this step.
Applied(kind) == NextIs(kind) /\ afterQueue' = Tail(afterQueue)

\* A step of a worker thread.
WorkerStep ==
    \/ \E i \in LoadJobs : \/ LoadPostDisable(i) \/ LoadCall(i) \/ LoadReturn(i)
                           \/ LoadPostReady(i) \/ LoadRaise(i)
    \/ \E j \in TransJobs : TransPostStart(j) \/ TransCall(j) \/ TransReturn(j)

\* The status texts the code uses to report a failure.
ErrorTexts ==
    {"Error: File not found", "Error initializing: load failed",
     "Error: transcription failed"}

LoadingTexts ==
    {"Initializing Whisper model...",
     "Downloading model... This may take a few minutes..."}
    \cup {"Downloading " \o z \o " model... This may take a few minutes..." : z \in Sizes}

\* The Ready phase: a model is loaded, both controls are enabled and no job
\* is in flight.
Ready ==
    /\ pipe # NONE
    /\ select_button = "normal"
    /\ model_combo = "readonly"
    /\ ~AnyLoadInFlight
    /\ ~AnyTransInFlight

\* C1: a transcription thread is started by select_file -> transcribe_file only
\* when self.pipe is not None and no load job for the currently selected size
\* is in flight.
C1_StartNeedsLoadedModel ==
    [][(\E file_path \in Paths : SelectFileReturn(file_path) /\ trans' # trans)
         => /\ pipe # NONE
            /\ ~\E i \in LoadJobs : LoadInFlight(i) /\ loads[i].size = current_model]_vars

\* C2: while any job (load or transcription) is in flight, the file-select
\* button and the model selector are both disabled.
C2_ControlsOffWhileBusy ==
    (AnyLoadInFlight \/ AnyTransInFlight)
        => (select_button = "disabled" /\ model_combo = "disabled")

\* C3: when a model switch started a second load while an earlier one was in
\* flight and both loads succeeded, then once all load callbacks have run the
\* current handle is the one of the last selected size and the selector
\* shows that size with status "Ready".
C3_LastSelectionWins ==
    ( /\ \E i \in LoadJobs : loads[i].raced
      /\ \A i \in LoadJobs : loads[i].pc # "idle" => loads[i].outcome = "ok"
      /\ ~AnyLoadInFlight /\ ~AnyTransInFlight /\ afterQueue = <<>> )
        => /\ pipe.model_id = MODELS[model_var]
           /\ current_model = model_var
           /\ status_var = "Ready"

\* C4: the handle a transcription thread passes to transcribe_audio is the
\* handle that was current when the job was submitted.
C4_HandleCapturedAtSubmit ==
    [][\A j \in TransJobs :
          TransCall(j) => trans'[j].pipeline = trans[j].submitted]_vars

\* C5: when the pipeline failed during a transcription, the completion run on
\* the UI thread enables file-select, stops the progress bar and shows an
\* error text, never "Transcription complete".
C5_FailureShown ==
    [][(Applied("update_output") /\ Head(afterQueue).result.isNone)
         => /\ select_button' = "normal"
            /\ progress' = "stopped"
            /\ status_var' \in ErrorTexts
            /\ status_var' # "Transcription complete"]_vars

\* C6: after the load-failure callback has run, file-select is disabled and
\* the model selector is enabled.
C6_LoadFailureControls ==
    [][Applied("load_error")
         => (select_button' = "disabled" /\ model_combo' = "readonly")]_vars

\* C6 witness: a load of a size other than the default has failed, its
\* callback has run and left the controls that way.
C6_Witness ==
    \E i \in LoadJobs :
        /\ loads[i].outcome = "failed" /\ loads[i].size # "small"
        /\ ~LoadInFlight(i) /\ afterQueue = <<>>
        /\ select_button = "disabled" /\ model_combo = "readonly"

\* C7: the load-failure callback sets the status to the failure reason (no
\* loading message stays) and stops the progress bar, together with its
\* control changes.
C7_LoadFailureStatus ==
    [][Applied("load_error")
         => /\ status_var' \in ErrorTexts
            /\ status_var' \notin LoadingTexts
            /\ progress' = "stopped"
            /\ select_button' = "disabled" /\ model_combo' = "readonly"]_vars

\* C8: between UI-thread callbacks the output widget is read-only, also after
\* a render that raised part-way.
C8_OutputReadOnly == output.state = "disabled"

\* C8 witness: a render raised after inserting part of a result.
C8_Witness ==
    \E result \in Results :
        /\ RenderBody(result).raised
        /\ output.content = RenderBody(result).content
        /\ output.content # <<>>
        /\ output.state = "disabled"

\* C9: a worker-thread step changes none of self.pipe, self.current_model, the
\* control states, the status text, the progress bar and the output widget.
C9_WorkersLeaveSessionAlone ==
    [][WorkerStep
         => UNCHANGED <<pipe, current_model, model_var, select_button,
                        model_combo, status_var, progress, output>>]_vars

\* C10: transcribe_file with a path that does not exist, called in the Ready
\* phase, sets the file-not-found status, starts no thread and leaves
\* everything else as it was, file-select still enabled.
C10_MissingFile ==
    [][\A file_path \in Paths :
          (Ready /\ ~exists(file_path) /\ SelectFileReturn(file_path))
            => /\ status_var' = "Error: File not found"
               /\ Ready'
               /\ UNCHANGED <<pipe, current_model, model_var, select_button,
                              model_combo, progress, output, afterQueue,
                              loads, trans>>]_vars

\* C10 witness: the file-not-found status is shown in the Ready phase with no
\* thread but the first load ever started.
C10_Witness ==
    /\ status_var = "Error: File not found"
    /\ Ready
    /\ ~dialog
    /\ Started = 1

\* C11: rendering a result on a surface that already shows the rendering of
\* that same result leaves the displayed content as it is (the old content
\* is cleared, nothing is appended) and the surface read-only.
C11_RenderIdempotent ==
    [][(Applied("update_output")
          /\ output.content = RenderBody(Head(afterQueue).result).content)
         => /\ output'.content = output.content
            /\ output'.state = "disabled"]_vars

\* C11 witness: one transcription has been rendered and removed from the
\* queue, and the next callback renders the same non-empty result again.
C11_Witness ==
    /\ NextIs("update_output")
    /\ ~Head(afterQueue).result.isNone
    /\ output.content = RenderBody(Head(afterQueue).result).content
    /\ output.content # <<>>
    /\ \E j \in TransJobs : trans[j].pc = "done" /\ ~TransInFlight(j)

\* A segment without an end time: a bare float, or a tuple whose end is None.
EndAbsent(ts) == ts.kind = "float" \/ ts.endNone

\* The label a segment is to be shown with: "[start]" without an end time,
\* "[start -> end]" with one.
Label(ts) ==
    IF EndAbsent(ts) THEN "[" \o Fmt2(ts.start) \o "s]"
    ELSE "[" \o Fmt2(ts.start) \o "s -> " \o Fmt2(ts.end) \o "s]"

\* The inserts of one segment, and of all segments in transcript order.
SegmentInserts(chunk) ==
    << Ins(Label(chunk.timestamp) \o " ", "timestamp"),
       Ins(strip(chunk.text), "text"),
       Ins("\n\n", "") >>

RECURSIVE AllSegmentInserts(_)
AllSegmentInserts(chunks) ==
    IF chunks = <<>> THEN <<>>
    ELSE SegmentInserts(Head(chunks)) \o AllSegmentInserts(Tail(chunks))

\* The whole document of a result: header, full text, separator, header,
\* segments.
Document(result) ==
    << Ins("Full Transcription:\n", "header"),
       Ins("\n", ""),
       Ins(strip(result.text), "text"),
       Ins("\n\n\n", ""),
       Ins("Timestamped Chunks:\n", "header"),
       Ins("\n", "") >> \o AllSegmentInserts(result.chunks)

IsTimestamp(ins) == ins.tag = "timestamp"

\* C12: after a result has been rendered the widget holds exactly its
\* document: the two headers, the full text and one labelled entry per
\* segment, in transcript order, with the header / timestamp / text tags.
C12_RenderedDocument ==
    [][(Applied("update_output") /\ ~Head(afterQueue).result.isNone)
         => /\ output'.content = Document(Head(afterQueue).result)
            /\ Len(SelectSeq(output'.content, IsTimestamp))
                 = Len(Head(afterQueue).result.chunks)]_vars

\* C13: rendering a result that has a segment without an end time raises no
\* error, renders every segment, and labels those segments "[start]" and
\* the others "[start -> end]".
C13_PointLabel ==
    [][(/\ Applied("update_output")
        /\ ~Head(afterQueue).result.isNone
        /\ \E k \in DOMAIN Head(afterQueue).result.chunks :
              EndAbsent(Head(afterQueue).result.chunks[k].timestamp))
         => LET chunks == Head(afterQueue).result.chunks
            IN  /\ ~RenderBody(Head(afterQueue).result).raised
                /\ SelectSeq(output'.content, IsTimestamp)
                     = [k \in DOMAIN chunks |->
                          Ins(Label(chunks[k].timestamp) \o " ", "timestamp")]]_vars

\* What the window shows when a model is loaded and ready for use.
ReadyShown ==
    /\ pipe # NONE
    /\ select_button = "normal"
    /\ model_combo = "readonly"
    /\ status_var = "Ready"

\* C14: from the start with the default size, if the first load does not
\* fail, then under fair scheduling of the threads and of the event queue
\* the window eventually shows Ready with both controls enabled.
C14_StartupReady ==
    [](loads[1].outcome # "failed") => <>ReadyShown

\* C14 witness: the first load alone has run to the end and the window shows
\* Ready.
C14_Witness ==
    /\ ReadyShown
    /\ Started = 1
    /\ loads[1].outcome = "ok"
    /\ afterQueue = <<>>
    /\ current_model = "small"

\* No job is in flight and no callback is queued.
Quiescent == ~AnyLoadInFlight /\ ~AnyTransInFlight /\ afterQueue = <<>>

\* C15: in every quiescent state the model selector is enabled and the
\* progress bar is idle, whatever succeeded or failed before.
C15_InteractiveWhenQuiet ==
    Quiescent => (model_combo = "readonly" /\ progress = "stopped")

\* C15 witness: a quiescent state after a transcription has completed and a
\* later load has failed.
C15_Witness ==
    /\ Quiescent
    /\ \E i \in LoadJobs : loads[i].outcome = "failed"
    /\ \E j \in TransJobs : trans[j].pc = "done"
    /\ model_combo = "readonly"
    /\ progress = "stopped"

\* The load threads started by a step.
StartedLoads == {i \in LoadJobs : loads[i].pc = "idle" /\ loads'[i].pc # "idle"}

\* C16: a model selection of the current size starts no load and changes
\* nothing; a selection of another size starts exactly one load thread and
\* disables both controls in the same step.
C16_ModelChange ==
    [][\A new_model \in Sizes :
          on_model_change(new_model)
            => IF new_model = current_model
               THEN UNCHANGED <<pipe, current_model, select_button, model_combo,
                                status_var, progress, output, afterQueue,
                                loads, trans, dialog>>
               ELSE /\ Cardinality(StartedLoads) = 1
                    /\ \A i \in LoadJobs \ StartedLoads : loads'[i] = loads[i]
                    /\ current_model' = new_model
                    /\ select_button' = "disabled"
                    /\ model_combo' = "disabled"
                    /\ UNCHANGED <<pipe, trans, afterQueue>>]_vars

\* C16 witness: a selection of another size has just started a load thread
\* and both controls are disabled.
C16_Witness ==
    \E i \in LoadJobs :
        /\ i > 1
        /\ loads[i].pc = "start"
        /\ loads[i].size = current_model
        /\ current_model # "small"
        /\ select_button = "disabled"
        /\ model_combo = "disabled"
        /\ status_var = "Downloading " \o current_model
                          \o " model... This may take a few minutes..."

\* The start callback of transcription j has run and its completion has not.
TransShownBusy(j) ==
    /\ trans[j].pc \in {"call", "running", "done"}
    /\ ~Queued({"trans_start"}, j)
    /\ TransInFlight(j)

\* C17: from the moment a transcription's start callback has run until its
\* completion callback runs, the progress bar is running.
C17_ProgressWhileTranscribing ==
    \A j \in TransJobs : TransShownBusy(j) => progress = "running"

\* C18: at most one transcription job is in flight.
C18_OneTranscription ==
    Cardinality({j \in TransJobs : TransInFlight(j)}) <= 1

\* C19: whenever file-select is enabled and no load is in flight, the
\* current handle was loaded for the currently selected size.
C19_HandleMatchesSelection ==
    (select_button = "normal" /\ ~AnyLoadInFlight)
        => (pipe # NONE /\ pipe.model_id = MODELS[current_model]
                        /\ model_var = current_model)

====
